---------------------------- MODULE Spec2Model ----------------------------
(***************************************************************************)
(* A model of jodie.py, the JODIE training script: the configuration       *)
(* check, the loading of the interaction stream, the T-batch scheduler of  *)
(* the first epoch, the flush of a window of T-batches, the T-batch cache   *)
(* and its replay in later epochs, the embedding tables and trajectories,  *)
(* and the checkpoint written at the end of every epoch.                   *)
(*                                                                         *)
(* Python indices are kept: interaction j is element j+1 of a sequence     *)
(* (At), ids of users and items start at 0.  Timestamps are integers; the  *)
(* float test  timestamp - tbatch_start_time > timespan / 500  is the      *)
(* integer test  500 * (timestamp - tbatch_start_time) > timespan.         *)
(* train_proportion is held in hundredths (80 is 0.8).  An embedding is    *)
(* abstracted to what produced it: -s is the learned initial vector after  *)
(* s optimizer steps (0 as first drawn), j+1 the output of the update of   *)
(* interaction j.  The accumulated loss is the set of the T-batches whose  *)
(* terms it holds.  Features and                                           *)
(* time differences ride along with the ids in the batch lists and are     *)
(* left out.  The seven parallel dictionaries of current T-batches (and    *)
(* the seven of cached T-batches) hold the same keys whenever their        *)
(* length is taken, and are one dictionary of records here.                *)
(***************************************************************************)
EXTENDS Integers, Sequences, FiniteSets, TLC

(***************************************************************************)
(* Bounds of the model.                                                    *)
(***************************************************************************)
\* length of the loaded stream
NumInteractions == 7
\* most distinct users / items of a stream with the plain timestamp patterns
NumUsers == 3
NumItems == 3
\* most distinct users and items of a stream with the rich timestamp patterns
SmallIds == 2
\* the gap a stream may have before its last interaction
BigGap == 600
\* most epochs asked for
MaxEpochs == 2
\* longest label sequence weighed on its own
MaxLabels == 6

(***************************************************************************)
(* Program constants.                                                      *)
(***************************************************************************)
\* tbatch_timespan = timespan / 500
NumTimespans == 500
\* train_proportion > 0.8 is rejected (in hundredths)
MaxTrainProportion == 80
\* defaultdict value of tbatchid_user / tbatchid_item: "not yet used"
InitialTbatchid == 0
\* tbatch_start_time = None
None == -1

(***************************************************************************)
(* Helpers.                                                                *)
(***************************************************************************)
At(s, k) == s[k + 1]

Range(s) == {s[k] : k \in DOMAIN s}

Max2(a, b) == IF a >= b THEN a ELSE b

Min2(a, b) == IF a <= b THEN a ELSE b

\* the values train_proportion is given in the runs explored
TrainProportions == {50, MaxTrainProportion, 85}

\* int(num_interactions * args.train_proportion)
TrainEnd(n, p) == (n * p) \div 100

\* the longest training prefix of the streams explored
FreeLen == TrainEnd(NumInteractions, MaxTrainProportion)

(***************************************************************************)
(* The streams explored.  Ids are numbered in order of first appearance    *)
(* (every stream is a renaming of such a stream, and the script only       *)
(* compares ids and indexes tables by them).  The interactions from        *)
(* FreeLen on are never read by the training loop (j < train_end_idx);     *)
(* they all have user 0 and item 0.  Timestamps do not decrease.           *)
(***************************************************************************)
RECURSIVE FirstAppearance(_, _)
FirstAppearance(n, m) ==
    IF n = 0 THEN {<<>>}
    ELSE UNION {{Append(s, x) : x \in 0..Min2(m - 1, Cardinality(Range(s)))}
                : s \in FirstAppearance(n - 1, m)}

Pad(s) == s \o [k \in 1..(NumInteractions - Len(s)) |-> 0]

RECURSIVE SumTo(_, _)
SumTo(d, k) == IF k = 0 THEN 0 ELSE SumTo(d, k - 1) + d[k]

\* the timestamps with steps d between the first FreeLen interactions and
\* a gap of tail before the last interaction of the stream
Times(d, tail) ==
    [k \in 1..NumInteractions |->
        SumTo(d, Min2(k - 1, Len(d))) + (IF k = NumInteractions THEN tail ELSE 0)]

RichTimes == {Times(d, tail) : d \in [1..(FreeLen - 1) -> {0, 1}], tail \in {0, BigGap}}

PlainTimes == {Times(d, tail) : d \in {[k \in 1..(FreeLen - 1) |-> 0],
                                       [k \in 1..(FreeLen - 1) |-> 1]},
                                tail \in {0, BigGap}}

Streams ==
    {[user |-> Pad(u), item |-> Pad(i), timestamp |-> t] :
        u \in FirstAppearance(FreeLen, SmallIds),
        i \in FirstAppearance(FreeLen, SmallIds), t \in RichTimes}
    \cup
    {[user |-> Pad(u), item |-> Pad(i), timestamp |-> t] :
        u \in FirstAppearance(FreeLen, NumUsers),
        i \in FirstAppearance(FreeLen, NumItems), t \in PlainTimes}

(***************************************************************************)
(* load_network: the previous item of interaction k is the item of the     *)
(* latest earlier interaction of the same user, or the "none" id, the      *)
(* extra item num_items - 1.                                               *)
(***************************************************************************)
PreviousItems(users, items, none) ==
    [k \in 1..Len(users) |->
        LET earlier == {h \in 1..(k - 1) : users[h] = users[k]}
        IN  IF earlier = {} THEN none
            ELSE items[CHOOSE h \in earlier : \A g \in earlier : g <= h]]

(***************************************************************************)
(* A T-batch: the parallel lists of one batch id.  tensor says whether     *)
(* lines 208-215 have turned the lists into tensors.                       *)
(***************************************************************************)
EmptyBatch ==
    [user |-> <<>>, item |-> <<>>, interactionids |-> <<>>,
     previous_item |-> <<>>, tensor |-> FALSE]

\* defaultdict(list): the keys are the domain, a missing key reads as []
Get(d, k) == IF k \in DOMAIN d THEN d[k] ELSE EmptyBatch

\* d[k] = v, inserting the key when it is missing
Put(d, k, v) == [x \in (DOMAIN d) \cup {k} |-> IF x = k THEN v ELSE d[x]]

EmptyDict == [x \in {} |-> EmptyBatch]

(***************************************************************************)
(* Lines 99-100 and 292-293: the table of n rows, every row the initial    *)
(* vector as it is when the table is built.                                *)
(***************************************************************************)
RepeatAsFirstDrawn(initial_embedding, n) == [e \in 0..(n - 1) |-> 0]

Repeat(initial_embedding, n) == [e \in 0..(n - 1) |-> initial_embedding]

(***************************************************************************)
(* Lines 64 and 87: the weight of the positive class.  A quotient is the   *)
(* pair of its numerator and denominator; a denominator of zero raises     *)
(* ZeroDivisionError.                                                      *)
(***************************************************************************)
RECURSIVE SumOf(_)
SumOf(y) == IF y = <<>> THEN 0 ELSE y[1] + SumOf(Tail(y))

Divided(n, d) == <<n, d>>

DividesByZero(q) == q[2] = 0

TrueLabelsDenominatorUnguarded(y) == SumOf(y)

\* 1.0 + sum(y_true)
TrueLabelsDenominator(y) == 1 + SumOf(y)

\* len(y_true) / (1.0 + sum(y_true))
TrueLabelsRatio(y) == Divided(Len(y), TrueLabelsDenominator(y))

WeightSwapped(ratio) == <<ratio, <<1, 1>>>>

\* torch.Tensor([1, true_labels_ratio]): class 0 (no change), class 1 (change)
Weight(ratio) == <<<<1, 1>>, ratio>>

\* the label sequences weighed on their own: a label is 0 or 1
LabelSeqs == UNION {[1..n -> {0, 1}] : n \in 1..MaxLabels}

\* the labels of the streams explored by the training loop: no state change
NoStateChange(n) == [k \in 1..n |-> 0]

VARIABLES
    pc,                  \* where the script is
    train_proportion,    \* args.train_proportion, in hundredths
    epochs,              \* args.epochs
    user_sequence_id, item_sequence_id, timestamp_sequence,
    user_previous_itemid_sequence,
    num_interactions, num_users, num_items,
    train_end_idx,
    timespan,            \* timestamp_sequence[-1] - timestamp_sequence[0]
    user_embeddings, item_embeddings,
    user_embeddings_timeseries, item_embeddings_timeseries,
    is_first_epoch,
    cached_tbatches,     \* cached_tbatches_*: closing timestamp -> T-batches
    tbatchid_user, tbatchid_item,          \* lib.tbatchid_*
    current_tbatches,    \* lib.current_tbatches_*: batch id -> T-batch
    current_alias,       \* the cache key whose dictionaries lib.current_tbatches_* are, or None
    ep, j, i,
    num_tbatches,        \* len(lib.current_tbatches_user), taken by trange at line 200
    timestamp, tbatch_start_time, tbatch_to_insert,
    optimizer_steps,     \* the optimizer.step() calls so far
    processed,           \* the batches loaded at lines 217-223, in order
    saved,               \* the checkpoints save_model has written, in order
    initial_user_embedding, initial_item_embedding,   \* the learned initial vectors
    y_true,              \* the state-change labels
    true_labels_ratio,   \* <<numerator, denominator>> of line 64
    weight,              \* the class weights of crossEntropyLoss
    loss,                \* the T-batches whose terms the accumulated loss holds
    closed,              \* the windows closed at line 186, in order
    stepped,             \* the optimizer steps of line 260, each with its loss
    raised               \* the exception that ended the script, or "none"

config == <<train_proportion, epochs>>

data == <<user_sequence_id, item_sequence_id, timestamp_sequence,
          user_previous_itemid_sequence, num_interactions, num_users,
          num_items, train_end_idx, timespan>>

tables == <<user_embeddings, item_embeddings>>

timeseries == <<user_embeddings_timeseries, item_embeddings_timeseries>>

scheduler == <<tbatchid_user, tbatchid_item, current_tbatches, current_alias>>

loop == <<ep, j, i, num_tbatches, timestamp, tbatch_start_time, tbatch_to_insert>>

initial == <<initial_user_embedding, initial_item_embedding>>

labels == <<y_true, true_labels_ratio, weight>>

vars == <<pc, config, data, tables, timeseries, is_first_epoch,
          cached_tbatches, scheduler, loop, optimizer_steps, processed, saved,
          initial, labels, loss, closed, stepped, raised>>

(***************************************************************************)
(* The script starts with the arguments parsed; nothing is loaded.         *)
(***************************************************************************)
Constructed ==
    /\ user_sequence_id = <<>>
    /\ item_sequence_id = <<>>
    /\ timestamp_sequence = <<>>
    /\ user_previous_itemid_sequence = <<>>
    /\ num_interactions = 0
    /\ num_users = 0
    /\ num_items = 0
    /\ train_end_idx = 0
    /\ timespan = 0
    /\ user_embeddings = <<>>
    /\ item_embeddings = <<>>
    /\ user_embeddings_timeseries = <<>>
    /\ item_embeddings_timeseries = <<>>
    /\ is_first_epoch = TRUE
    /\ cached_tbatches = <<>>
    /\ tbatchid_user = <<>>
    /\ tbatchid_item = <<>>
    /\ current_tbatches = EmptyDict
    /\ current_alias = None
    /\ ep = 0
    /\ j = 0
    /\ i = 0
    /\ num_tbatches = 0
    /\ timestamp = None
    /\ tbatch_start_time = None
    /\ tbatch_to_insert = -1
    /\ optimizer_steps = 0
    /\ processed = <<>>
    /\ saved = <<>>
    /\ initial_user_embedding = 0
    /\ initial_item_embedding = 0
    /\ true_labels_ratio = <<>>
    /\ weight = <<>>
    /\ loss = {}
    /\ closed = <<>>
    /\ stepped = <<>>
    /\ raised = "none"

Init ==
    /\ pc = "check"
    /\ train_proportion \in TrainProportions
    /\ epochs \in 1..MaxEpochs
    /\ y_true = <<>>
    /\ Constructed

(***************************************************************************)
(* Lines 39-41: the check of train_proportion.                             *)
(***************************************************************************)
RejectedFromBoundary(p) == p >= MaxTrainProportion

Rejected(p) == p > MaxTrainProportion

CheckConfig ==
    /\ pc = "check"
    /\ pc' = IF Rejected(train_proportion) THEN "exit" ELSE "load"
    /\ UNCHANGED <<config, data, tables, timeseries, is_first_epoch,
                   cached_tbatches, scheduler, loop, optimizer_steps,
                   processed, saved, initial, labels, loss, closed, stepped,
                   raised>>

(***************************************************************************)
(* Lines 50-123: load_network, the sizes and boundaries, the embedding     *)
(* tables (every row the initial embedding), the empty caches.  The        *)
(* counters lib.tbatchid_user / lib.tbatchid_item read InitialTbatchid for *)
(* every id.                                                               *)
(***************************************************************************)
LoadNetwork ==
    /\ pc = "load"
    /\ \E s \in Streams :
        LET nu == Cardinality(Range(s.user))
            ni == Cardinality(Range(s.item)) + 1
        IN  /\ user_sequence_id' = s.user
            /\ item_sequence_id' = s.item
            /\ timestamp_sequence' = s.timestamp
            /\ user_previous_itemid_sequence' = PreviousItems(s.user, s.item, ni - 1)
            /\ num_interactions' = Len(s.user)
            /\ num_users' = nu
            /\ num_items' = ni
            /\ train_end_idx' = TrainEnd(Len(s.user), train_proportion)
            /\ timespan' = s.timestamp[Len(s.timestamp)] - s.timestamp[1]
            /\ y_true' = NoStateChange(Len(s.user))
            /\ true_labels_ratio' = TrueLabelsRatio(NoStateChange(Len(s.user)))
            /\ weight' = Weight(TrueLabelsRatio(NoStateChange(Len(s.user))))
            /\ initial_user_embedding' = 0
            /\ initial_item_embedding' = 0
            /\ user_embeddings' = Repeat(0, nu)
            /\ item_embeddings' = Repeat(0, ni)
            /\ tbatchid_user' = [u \in 0..(nu - 1) |-> InitialTbatchid]
            /\ tbatchid_item' = [x \in 0..(ni - 1) |-> InitialTbatchid]
    /\ is_first_epoch' = TRUE
    /\ cached_tbatches' = <<>>
    /\ pc' = "epoch"
    /\ UNCHANGED <<config, timeseries, current_tbatches, current_alias, loop,
                   optimizer_steps, processed, saved, loss, closed, stepped,
                   raised>>

(***************************************************************************)
(* reinitialize_tbatches of library_models: the lists of the current       *)
(* T-batches start afresh; the per-entity counters are left as they are.   *)
(***************************************************************************)
ReinitializedTbatches == EmptyDict

ReinitializedTbatchid(counters) == counters

(***************************************************************************)
(* Lines 135-152: the start of an epoch.  The trajectories are new         *)
(* tensors, no row written (0).                                            *)
(***************************************************************************)
StartEpoch ==
    /\ pc = "epoch"
    /\ user_embeddings_timeseries' = [k \in 0..(num_interactions - 1) |-> 0]
    /\ item_embeddings_timeseries' = [k \in 0..(num_interactions - 1) |-> 0]
    /\ current_tbatches' = ReinitializedTbatches
    /\ current_alias' = None
    /\ tbatchid_user' = ReinitializedTbatchid(tbatchid_user)
    /\ tbatchid_item' = ReinitializedTbatchid(tbatchid_item)
    /\ tbatch_start_time' = None
    /\ tbatch_to_insert' = -1
    /\ loss' = {}
    /\ j' = 0
    /\ pc' = "iter"
    /\ UNCHANGED <<config, data, tables, is_first_epoch, cached_tbatches, ep, i,
                   num_tbatches, timestamp, optimizer_steps, processed, saved,
                   initial, labels, closed, stepped, raised>>

(***************************************************************************)
(* Lines 169-179: the T-batch of interaction k of user u with item x.      *)
(***************************************************************************)
TbatchToInsertByUser(u, x) == tbatchid_user[u] + 1

TbatchToInsertNoIncrement(u, x) == Max2(tbatchid_user[u], tbatchid_item[x])

TbatchToInsertMin(u, x) == Min2(tbatchid_user[u], tbatchid_item[x]) + 1

TbatchToInsert(u, x) == Max2(tbatchid_user[u], tbatchid_item[x]) + 1

AppendInteraction(d, tb, k) ==
    LET b == Get(d, tb)
    IN  Put(d, tb, [b EXCEPT
            !.user = Append(@, At(user_sequence_id, k)),
            !.item = Append(@, At(item_sequence_id, k)),
            !.interactionids = Append(@, k),
            !.previous_item = Append(@, At(user_previous_itemid_sequence, k))])

\* line 159: the scheduler runs in the first epoch only
SchedulesInteraction == is_first_epoch

LoadsFromCacheNever == FALSE

\* line 190: a later epoch takes the T-batches of the cache
LoadsFromCache == ~is_first_epoch

ConvertsToTensorsAlways == TRUE

\* line 207: the first epoch turns the lists of a T-batch into tensors
ConvertsToTensors == is_first_epoch

\* line 271: the first epoch stores the T-batches of the window
StoresInCache == is_first_epoch

WindowClosesAtSpan(t, start) == NumTimespans * (t - start) >= timespan

WindowClosesAlways(t, start) == TRUE

\* line 186: timestamp - tbatch_start_time > tbatch_timespan
WindowCloses(t, start) == NumTimespans * (t - start) > timespan

\* lines 182-183
StartTime(t, start) == IF start = None THEN t ELSE start

(***************************************************************************)
(* Lines 156-198: one turn of the loop over the interactions, up to the    *)
(* test of the window.  In the first epoch interaction j is put in its     *)
(* T-batch.  When the window closes, a later epoch takes the T-batches of  *)
(* the cache (the dictionaries themselves, not copies); a missing key      *)
(* raises KeyError.  trange takes the number of T-batches at line 200.     *)
(***************************************************************************)
Iterate ==
    /\ pc = "iter"
    /\ j < train_end_idx
    /\ LET u == At(user_sequence_id, j)
           x == At(item_sequence_id, j)
           tb == TbatchToInsert(u, x)
           t == At(timestamp_sequence, j)
           start == StartTime(t, tbatch_start_time)
           scheduled == IF SchedulesInteraction
                        THEN AppendInteraction(current_tbatches, tb, j)
                        ELSE current_tbatches
       IN  /\ timestamp' = t
           /\ IF SchedulesInteraction
              THEN /\ tbatch_to_insert' = tb
                   /\ tbatchid_user' = [tbatchid_user EXCEPT ![u] = tb]
                   /\ tbatchid_item' = [tbatchid_item EXCEPT ![x] = tb]
              ELSE UNCHANGED <<tbatch_to_insert, tbatchid_user, tbatchid_item>>
           /\ IF WindowCloses(t, start)
              THEN /\ tbatch_start_time' = t
                   /\ j' = j
                   /\ closed' = Append(closed, [ep |-> ep, j |-> j, timestamp |-> t])
                   /\ IF ~LoadsFromCache
                      THEN /\ current_tbatches' = scheduled
                           /\ current_alias' = current_alias
                           /\ num_tbatches' = Cardinality(DOMAIN scheduled)
                           /\ i' = 0
                           /\ pc' = "flush"
                           /\ raised' = raised
                      ELSE IF t \in DOMAIN cached_tbatches
                      THEN /\ current_tbatches' = cached_tbatches[t]
                           /\ current_alias' = t
                           /\ num_tbatches' = Cardinality(DOMAIN cached_tbatches[t])
                           /\ i' = 0
                           /\ pc' = "flush"
                           /\ raised' = raised
                      ELSE /\ pc' = "abort"
                           /\ raised' = "KeyError"
                           /\ UNCHANGED <<current_tbatches, current_alias,
                                          num_tbatches, i>>
              ELSE /\ tbatch_start_time' = start
                   /\ j' = j + 1
                   /\ current_tbatches' = scheduled
                   /\ pc' = "iter"
                   /\ UNCHANGED <<current_alias, num_tbatches, i, closed, raised>>
    /\ UNCHANGED <<config, data, tables, timeseries, is_first_epoch,
                   cached_tbatches, ep, optimizer_steps, processed, saved,
                   initial, labels, loss, stepped>>

(***************************************************************************)
(* Lines 243-247: the writes of one T-batch b.  A row indexed by several   *)
(* members keeps the value of the last of them.                            *)
(***************************************************************************)
LastMember(ids, e) == CHOOSE k \in DOMAIN ids : ids[k] = e /\ \A h \in DOMAIN ids : ids[h] = e => h <= k

Written(table, ids, b) ==
    [e \in DOMAIN table |->
        IF e \in Range(ids) THEN b.interactionids[LastMember(ids, e)] + 1
        ELSE table[e]]

WrittenTimeseries(series, b) ==
    [k \in DOMAIN series |-> IF k \in Range(b.interactionids) THEN k + 1 ELSE series[k]]

\* lines 224, 228, 236: the rows of a table at the ids of a T-batch
RowsAt(table, ids) == [q \in DOMAIN ids |-> table[ids[q]]]

\* the dictionaries of the cache key a, when lib.current_tbatches_* are those
Aliased(cache, a, d) == IF a = None THEN cache ELSE [cache EXCEPT ![a] = d]

(***************************************************************************)
(* Lines 201-255: T-batch i of the window.  Line 204 reads entry i, which  *)
(* a defaultdict inserts when missing.  The first epoch turns the lists of *)
(* entry i into tensors; a later epoch uses the entry as it is, and        *)
(* .unsqueeze at line 221 raises AttributeError on a list.                 *)
(***************************************************************************)
ProcessBatch ==
    /\ pc = "flush"
    /\ i < num_tbatches
    /\ LET read == IF i \in DOMAIN current_tbatches THEN current_tbatches
                   ELSE Put(current_tbatches, i, EmptyBatch)
           loaded == IF ConvertsToTensors
                     THEN Put(read, i, [read[i] EXCEPT !.tensor = TRUE])
                     ELSE read
           b == loaded[i]
       IN  /\ current_tbatches' = loaded
           /\ cached_tbatches' = Aliased(cached_tbatches, current_alias, loaded)
           /\ IF b.tensor
              THEN /\ processed' = Append(processed,
                          [ep |-> ep, timestamp |-> timestamp, i |-> i,
                           user |-> b.user, item |-> b.item,
                           interactionids |-> b.interactionids,
                           previous_item |-> b.previous_item,
                           item_embedding_previous |->
                               RowsAt(item_embeddings, b.previous_item),
                           user_embedding_input |-> RowsAt(user_embeddings, b.user),
                           item_embedding_input |-> RowsAt(item_embeddings, b.item),
                           loss |-> loss])
                   /\ loss' = loss \cup {<<ep, timestamp, i>>}
                   /\ raised' = raised
                   /\ item_embeddings' = Written(item_embeddings, b.item, b)
                   /\ user_embeddings' = Written(user_embeddings, b.user, b)
                   /\ user_embeddings_timeseries' =
                          WrittenTimeseries(user_embeddings_timeseries, b)
                   /\ item_embeddings_timeseries' =
                          WrittenTimeseries(item_embeddings_timeseries, b)
                   /\ i' = i + 1
                   /\ pc' = "flush"
              ELSE /\ pc' = "abort"
                   /\ raised' = "AttributeError"
                   /\ UNCHANGED <<processed, tables, timeseries, i, loss>>
    /\ UNCHANGED <<config, data, is_first_epoch, tbatchid_user, tbatchid_item,
                   current_alias, ep, j, num_tbatches, timestamp,
                   tbatch_start_time, tbatch_to_insert, optimizer_steps, saved,
                   initial, labels, closed, stepped>>

(***************************************************************************)
(* Lines 257-281: after the T-batches of the window, the optimizer step,   *)
(* which moves every parameter of the model, the two initial vectors       *)
(* among them, and the reset of the loss; the first epoch stores the       *)
(* T-batches under the closing timestamp and reinitializes.  Then the      *)
(* loop goes on to interaction j + 1.                                      *)
(***************************************************************************)
StoredAlone(cache, t, d) == [k \in {t} |-> d]

Stored(cache, t, d) == [k \in (DOMAIN cache) \cup {t} |-> IF k = t THEN d ELSE cache[k]]

Backward ==
    /\ pc = "flush"
    /\ i = num_tbatches
    /\ optimizer_steps' = optimizer_steps + 1
    /\ initial_user_embedding' = -(optimizer_steps + 1)
    /\ initial_item_embedding' = -(optimizer_steps + 1)
    /\ loss' = {}
    /\ stepped' = Append(stepped,
                         [ep |-> ep, timestamp |-> timestamp, loss |-> loss])
    /\ IF StoresInCache
       THEN /\ cached_tbatches' = Stored(cached_tbatches, timestamp, current_tbatches)
            /\ current_tbatches' = ReinitializedTbatches
            /\ current_alias' = None
            /\ tbatchid_user' = ReinitializedTbatchid(tbatchid_user)
            /\ tbatchid_item' = ReinitializedTbatchid(tbatchid_item)
            /\ tbatch_to_insert' = -1
       ELSE UNCHANGED <<cached_tbatches, scheduler, tbatch_to_insert>>
    /\ j' = j + 1
    /\ pc' = "iter"
    /\ UNCHANGED <<config, data, tables, timeseries, is_first_epoch, ep, i,
                   num_tbatches, timestamp, tbatch_start_time, processed, saved,
                   labels, closed, raised>>

(***************************************************************************)
(* Lines 283-293: the end of an epoch: the checkpoint, then the tables     *)
(* are the initial embedding again.                                        *)
(***************************************************************************)
Checkpoint ==
    [ep |-> ep, train_end_idx |-> train_end_idx,
     user_embeddings |-> user_embeddings, item_embeddings |-> item_embeddings,
     user_embeddings_timeseries |-> user_embeddings_timeseries,
     item_embeddings_timeseries |-> item_embeddings_timeseries]

EndEpoch ==
    /\ pc = "iter"
    /\ j = train_end_idx
    /\ is_first_epoch' = FALSE
    /\ saved' = Append(saved, Checkpoint)
    /\ user_embeddings' = Repeat(initial_user_embedding, num_users)
    /\ item_embeddings' = Repeat(initial_item_embedding, num_items)
    /\ IF ep + 1 < epochs
       THEN ep' = ep + 1 /\ pc' = "epoch"
       ELSE ep' = ep /\ pc' = "final"
    /\ UNCHANGED <<config, data, timeseries, cached_tbatches, scheduler, j, i,
                   num_tbatches, timestamp, tbatch_start_time, tbatch_to_insert,
                   optimizer_steps, processed, initial, labels, loss, closed,
                   stepped, raised>>

(***************************************************************************)
(* Lines 295-297: the final save, of the values of the last epoch.         *)
(***************************************************************************)
Finish ==
    /\ pc = "final"
    /\ saved' = Append(saved, saved[Len(saved)])
    /\ pc' = "done"
    /\ UNCHANGED <<config, data, tables, timeseries, is_first_epoch,
                   cached_tbatches, scheduler, loop, optimizer_steps, processed,
                   initial, labels, loss, closed, stepped, raised>>

Next ==
    \/ CheckConfig
    \/ LoadNetwork
    \/ StartEpoch
    \/ Iterate
    \/ ProcessBatch
    \/ Backward
    \/ EndEpoch
    \/ Finish

Spec == Init /\ [][Next]_vars

(***************************************************************************)
(* Lines 64 and 87 on their own, for every label sequence: the class       *)
(* weights of the state-change loss.                                       *)
(***************************************************************************)
InitLabels ==
    /\ pc = "labels"
    /\ train_proportion = MaxTrainProportion
    /\ epochs = 1
    /\ y_true \in LabelSeqs
    /\ Constructed

WeighClasses ==
    /\ pc = "labels"
    /\ IF DividesByZero(TrueLabelsRatio(y_true))
       THEN /\ raised' = "ZeroDivisionError"
            /\ pc' = "abort"
            /\ UNCHANGED <<true_labels_ratio, weight>>
       ELSE /\ true_labels_ratio' = TrueLabelsRatio(y_true)
            /\ weight' = Weight(TrueLabelsRatio(y_true))
            /\ pc' = "weighted"
            /\ raised' = raised
    /\ UNCHANGED <<config, data, tables, timeseries, is_first_epoch,
                   cached_tbatches, scheduler, loop, optimizer_steps,
                   processed, saved, initial, y_true, loss, closed, stepped>>

NextLabels == WeighClasses

SpecLabels == InitLabels /\ [][NextLabels]_vars

(***************************************************************************)
(* The script with a stream that changes between epochs, which the         *)
(* script itself never does: before a later epoch starts, the timestamps   *)
(* are shifted by one or replaced by one of the plain patterns.  timespan  *)
(* stays as computed at line 82.                                           *)
(***************************************************************************)
Shifted(ts) == [k \in DOMAIN ts |-> ts[k] + 1]

MutatedTimes(ts) == (IF ts[1] = 0 THEN {Shifted(ts)} ELSE {}) \cup (PlainTimes \ {ts})

MutateStream ==
    /\ pc = "epoch"
    /\ ~is_first_epoch
    /\ timestamp_sequence' \in MutatedTimes(timestamp_sequence)
    /\ UNCHANGED <<pc, config, user_sequence_id, item_sequence_id,
                   user_previous_itemid_sequence, num_interactions, num_users,
                   num_items, train_end_idx, timespan, tables, timeseries,
                   is_first_epoch, cached_tbatches, scheduler, loop,
                   optimizer_steps, processed, saved, initial, labels, loss,
                   closed, stepped, raised>>

NextMutated == Next \/ MutateStream

SpecMutated == Init /\ [][NextMutated]_vars

(***************************************************************************)
(* The vocabulary of the properties.                                       *)
(***************************************************************************)
UserOf(k) == At(user_sequence_id, k)

ItemOf(k) == At(item_sequence_id, k)

TimeOf(k) == At(timestamp_sequence, k)

SetMax(S) == CHOOSE m \in S : \A x \in S : x <= m

SetMin(S) == CHOOSE m \in S : \A x \in S : m <= x

Distinct(s) == \A a, b \in DOMAIN s : a # b => s[a] # s[b]

\* the interactions listed in the T-batches d
IdsOf(d) == UNION {Range(d[b].interactionids) : b \in DOMAIN d}

\* the closing timestamps of the flushed windows
Keys == DOMAIN cached_tbatches

\* the interactions of the window flushed at t
Window(t) == IdsOf(cached_tbatches[t])

\* the flushed windows and the open one (None), each the T-batches it holds
WindowNames == Keys \cup {None}

DictOf(w) == IF w = None THEN current_tbatches ELSE cached_tbatches[w]

Scheduled == UNION {IdsOf(DictOf(w)) : w \in WindowNames}

BatchIdsOf(k) ==
    UNION {{b \in DOMAIN DictOf(w) : k \in Range(DictOf(w)[b].interactionids)}
           : w \in WindowNames}

BatchId(k) == CHOOSE b \in BatchIdsOf(k) : TRUE

\* the first epoch is between its first interaction and its checkpoint
FirstEpochRunning == is_first_epoch /\ pc \in {"iter", "flush"}

\* C1: within every flush window, open or flushed, and for every batch id,
\* the interactions of the batch have pairwise distinct users and pairwise
\* distinct items.
C1_DistinctWithinBatch ==
    \A w \in WindowNames : \A b \in DOMAIN DictOf(w) :
        /\ Distinct(DictOf(w)[b].user)
        /\ Distinct(DictOf(w)[b].item)
        /\ \A h, k \in Range(DictOf(w)[b].interactionids) :
              h # k => UserOf(h) # UserOf(k) /\ ItemOf(h) # ItemOf(k)

\* a flushed window with a batch of several interactions and another batch
\* that shares a user with it
C1_Witness ==
    \E t \in Keys : \E b, c \in DOMAIN cached_tbatches[t] :
        /\ b # c
        /\ Len(cached_tbatches[t][b].interactionids) >= 2
        /\ Range(cached_tbatches[t][b].user) \cap Range(cached_tbatches[t][c].user) # {}

ConflictsOf(k) ==
    {h \in Scheduled : h < k /\ (UserOf(h) = UserOf(k) \/ ItemOf(h) = ItemOf(k))}

ExpectedBatchId(k) == SetMax({BatchId(h) : h \in ConflictsOf(k)} \cup {0}) + 1

\* the stream (A,X),(B,Y),(A,Y),(C,X),(A,Z), all five in the open window
InScenario ==
    /\ FirstEpochRunning
    /\ SubSeq(user_sequence_id, 1, 5) = <<0, 1, 0, 2, 0>>
    /\ SubSeq(item_sequence_id, 1, 5) = <<0, 1, 1, 0, 2>>
    /\ 0..4 \subseteq IdsOf(current_tbatches)

\* C2: every interaction is in the batch max(last batch of its user, last
\* batch of its item) + 1, the counters starting at 0: one more than the
\* greatest batch id of the earlier interactions with the same user or the
\* same item, 1 when there is none; the first batch id is 1; the stream
\* (A,X),(B,Y),(A,Y),(C,X),(A,Z) in one window gets 1,1,2,2,3.
C2_BatchIdRule ==
    FirstEpochRunning =>
        /\ \A k \in Scheduled : BatchIdsOf(k) = {ExpectedBatchId(k)}
        /\ 0 \in Scheduled => BatchId(0) = 1
        /\ InScenario =>
              <<BatchId(0), BatchId(1), BatchId(2), BatchId(3), BatchId(4)>>
                  = <<1, 1, 2, 2, 3>>

C2_Witness == InScenario /\ pc = "iter" /\ j = 5

\* C3: for every user and every item, the batch ids of its interactions
\* grow strictly in stream order over the whole epoch, across windows too.
C3_StrictlyIncreasing ==
    \A h, k \in Scheduled :
        (h < k /\ (UserOf(h) = UserOf(k) \/ ItemOf(h) = ItemOf(k)))
            => BatchId(h) < BatchId(k)

\* a user with an interaction in a flushed window and a later one in
\* another window
C3_Witness ==
    \E t \in Keys : \E h \in Window(t) : \E k \in Scheduled \ Window(t) :
        h < k /\ UserOf(h) = UserOf(k) /\ BatchId(h) < BatchId(k)

IsRange(S) == S # {} /\ S = SetMin(S)..SetMax(S)

\* where interaction k is listed: window, batch id, position
PlacesOf(k) ==
    UNION {UNION {{<<w, b, q>> : q \in {q \in DOMAIN DictOf(w)[b].interactionids :
                                        DictOf(w)[b].interactionids[q] = k}}
                  : b \in DOMAIN DictOf(w)}
           : w \in WindowNames}

\* the interactions the loop has scheduled so far
NumScheduled == IF pc = "flush" THEN j + 1 ELSE j

\* C4: in the first epoch the flushed windows are disjoint contiguous
\* ranges of indices, in increasing order of index and of closing
\* timestamp, and with the open window they hold every index scheduled so
\* far exactly once: every index below the training boundary when the
\* stream ends.
C4_WindowsPartition ==
    FirstEpochRunning =>
        /\ \A t \in Keys : IsRange(Window(t))
        /\ \A t, u \in Keys : t < u => SetMax(Window(t)) < SetMin(Window(u))
        /\ \A t \in Keys : \A k \in IdsOf(current_tbatches) : SetMax(Window(t)) < k
        /\ IdsOf(current_tbatches) = {} \/ IsRange(IdsOf(current_tbatches))
        /\ Scheduled = 0..(NumScheduled - 1)
        /\ \A k \in 0..(NumScheduled - 1) : Cardinality(PlacesOf(k)) = 1

\* the stream has ended in the first epoch, with several flushed windows
\* and an open one
C4_Witness ==
    /\ is_first_epoch /\ pc = "iter" /\ j = train_end_idx
    /\ Cardinality(Keys) >= 2
    /\ IdsOf(current_tbatches) # {}

WithinSpan(t, start) == NumTimespans * (t - start) <= timespan

EarlierKeys(t) == {u \in Keys : u < t}

\* the first index of the window flushed at t is the first not in an
\* earlier window
StartsAtFirstUnplaced(t) ==
    SetMin(Window(t)) = IF EarlierKeys(t) = {} THEN 0
                        ELSE SetMax(Window(SetMax(EarlierKeys(t)))) + 1

\* C5 as stated: in every flushed window the last timestamp is within the
\* span of the first, and the window starts at the first interaction not
\* in an earlier window.
C5_WithinSpanOfFirst ==
    \A t \in Keys :
        /\ WithinSpan(TimeOf(SetMax(Window(t))), TimeOf(SetMin(Window(t))))
        /\ StartsAtFirstUnplaced(t)

\* the start time of the window flushed at t: the first timestamp of the
\* stream, or the closing timestamp of the window before
StartTimeOf(t) == IF EarlierKeys(t) = {} THEN TimeOf(0) ELSE SetMax(EarlierKeys(t))

\* C5 amended: in every flushed window the last interaction is the closing
\* one, its timestamp is the key and is beyond the span from the start
\* time of the window; every other interaction of the window is within the
\* span from the start time; the start time is the first timestamp of the
\* stream or the closing timestamp of the window before; and the window
\* starts at the first interaction not in an earlier window.
C5_WithinSpanButClosing ==
    \A t \in Keys :
        /\ TimeOf(SetMax(Window(t))) = t
        /\ ~WithinSpan(t, StartTimeOf(t))
        /\ \A k \in Window(t) \ {SetMax(Window(t))} : WithinSpan(TimeOf(k), StartTimeOf(t))
        /\ StartsAtFirstUnplaced(t)

\* a second window with an interaction after its start time and within
\* the span
C5_Witness ==
    \E t \in Keys :
        /\ EarlierKeys(t) # {}
        /\ \E k \in Window(t) \ {SetMax(Window(t))} : TimeOf(k) > StartTimeOf(t)

\* C6: when the checkpoint of an epoch is written, every interaction below
\* the training boundary has been in a T-batch processed in that epoch.
C6_AllProcessedByCheckpoint ==
    \A c \in Range(saved) : \A k \in 0..(c.train_end_idx - 1) :
        \E q \in DOMAIN processed :
            processed[q].ep = c.ep /\ k \in Range(processed[q].interactionids)

\* C7: in the checkpoint of every epoch, every row below the training
\* boundary of the user trajectory and of the item trajectory is written.
C7_TrajectoriesComplete ==
    \A c \in Range(saved) : \A k \in 0..(c.train_end_idx - 1) :
        c.user_embeddings_timeseries[k] # 0 /\ c.item_embeddings_timeseries[k] # 0

\* the T-batches processed in epoch e for the window closed at t
BatchesOf(e, t) ==
    LET rows == SelectSeq(processed, LAMBDA r : r.ep = e /\ r.timestamp = t)
    IN  [q \in DOMAIN rows |->
            [i |-> rows[q].i, user |-> rows[q].user, item |-> rows[q].item,
             interactionids |-> rows[q].interactionids,
             previous_item |-> rows[q].previous_item]]

IsPrefix(a, b) == Len(a) <= Len(b) /\ a = SubSeq(b, 1, Len(a))

\* C8: in a later epoch the flush of a window takes as many T-batches as
\* the first epoch processed for it, the same ones in the same order, and
\* the scheduler gives out no batch id.
C8_ReplayIdentical ==
    (ep > 0 /\ pc \in {"iter", "flush"}) =>
        /\ tbatch_to_insert = -1
        /\ pc = "flush" =>
              /\ num_tbatches = Len(BatchesOf(0, timestamp))
              /\ IsPrefix(BatchesOf(ep, timestamp), BatchesOf(0, timestamp))

\* C9: once the first epoch has ended, no step changes the cache.
C9_CacheReadOnly == [][~is_first_epoch => cached_tbatches' = cached_tbatches]_vars

\* a later epoch has processed a T-batch of a cached window
C9_Witness ==
    /\ ~is_first_epoch
    /\ \E q \in DOMAIN processed :
          processed[q].ep > 0 /\ processed[q].interactionids # <<>>

\* nothing is loaded, scheduled, embedded or cached
NothingLoaded ==
    /\ user_sequence_id = <<>> /\ item_sequence_id = <<>>
    /\ timestamp_sequence = <<>> /\ num_interactions = 0
    /\ DOMAIN user_embeddings = {} /\ DOMAIN item_embeddings = {}
    /\ DOMAIN tbatchid_user = {} /\ DOMAIN tbatchid_item = {}
    /\ DOMAIN current_tbatches = {} /\ DOMAIN cached_tbatches = {}
    /\ processed = <<>> /\ saved = <<>>

\* C10: a train_proportion above 0.8 ends the script at the check, with
\* nothing loaded; a train_proportion of 0.8 or less passes the check.
C10_ConfigRejected ==
    /\ train_proportion > 80 => pc \in {"check", "exit"} /\ NothingLoaded
    /\ pc = "exit" => train_proportion > 80
    /\ train_proportion <= 80 => pc # "exit"

C10_Witness == pc = "exit" /\ train_proportion = 85 /\ NothingLoaded

\* C11: at the start of every epoch, the first and every later one, every
\* row of the user table is the initial user vector as it is then, and
\* every row of the item table the initial item vector, whatever the
\* epoch before wrote and however the optimizer moved the vectors.
C11_TablesResetAtEpochStart ==
    pc = "epoch" =>
        /\ DOMAIN user_embeddings = 0..(num_users - 1)
        /\ DOMAIN item_embeddings = 0..(num_items - 1)
        /\ \A u \in DOMAIN user_embeddings : user_embeddings[u] = initial_user_embedding
        /\ \A x \in DOMAIN item_embeddings : item_embeddings[x] = initial_item_embedding

\* a later epoch starts after an epoch that wrote rows of both tables and
\* took an optimizer step
C11_Witness ==
    /\ pc = "epoch" /\ ep > 0 /\ optimizer_steps > 0
    /\ \E u \in DOMAIN user_embeddings : saved[Len(saved)].user_embeddings[u] > 0
    /\ \E x \in DOMAIN item_embeddings : saved[Len(saved)].item_embeddings[x] > 0

\* a window has just been closed by a later epoch at a timestamp the cache
\* has no entry for
MissesCache ==
    /\ ~is_first_epoch
    /\ Len(closed') = Len(closed) + 1
    /\ closed'[Len(closed')].timestamp \notin DOMAIN cached_tbatches

\* C12: when a later epoch closes a window at a timestamp with no entry in
\* the cache, the script ends there with KeyError: no T-batch of the window
\* is processed, no row of a table or of a trajectory is written, no
\* optimizer step is taken, and nothing happens after it.
C12_CacheMissAborts ==
    [][/\ MissesCache =>
            /\ raised' = "KeyError" /\ pc' = "abort"
            /\ UNCHANGED <<tables, timeseries, optimizer_steps, processed,
                           cached_tbatches, loss, saved>>
       /\ raised = "KeyError" => UNCHANGED vars]_vars

\* a later epoch has met a closing timestamp missing from a cache that
\* holds other windows
C12_Witness ==
    /\ raised = "KeyError" /\ pc = "abort" /\ ep > 0
    /\ DOMAIN cached_tbatches # {}
    /\ closed[Len(closed)].timestamp \notin DOMAIN cached_tbatches

\* the labels that say "state change"
Positives == {k \in DOMAIN y_true : y_true[k] = 1}

\* C13: for every label sequence, one without a positive label too, the
\* weight of the positive class is a quotient whose denominator is at
\* least 1: the division never raises and the weight is finite.
C13_DenominatorAtLeastOne ==
    /\ raised # "ZeroDivisionError"
    /\ pc = "weighted" =>
          /\ true_labels_ratio[2] >= 1
          /\ weight[2] = true_labels_ratio
          /\ weight[2][2] >= 1

\* the longest label sequence, no label positive, has been weighed
C13_Witness ==
    /\ pc = "weighted" /\ Len(y_true) = MaxLabels /\ Positives = {}
    /\ weight[2] = <<MaxLabels, 1>>

\* C14 as stated: with at least one positive label, the weight of the
\* positive class is (number of labels) / (number of positive labels).
C14_RatioOfAllToPositive ==
    (pc = "weighted" /\ Positives # {}) =>
        weight[2][1] * Cardinality(Positives) = Len(y_true) * weight[2][2]

\* C14 amended: for every label sequence the weight of the positive class
\* is (number of labels) / (1 + number of positive labels), and the weight
\* of the other class is 1.
C14_RatioOfAllToOnePlusPositive ==
    pc = "weighted" =>
        /\ weight[2][1] * (1 + Cardinality(Positives)) = Len(y_true) * weight[2][2]
        /\ weight[1][1] = weight[1][2]

\* a label sequence with positive and other labels has been weighed
C14_Witness ==
    /\ pc = "weighted"
    /\ Cardinality(Positives) >= 2
    /\ Cardinality(Positives) < Len(y_true)

\* member q of the processed T-batch r writes no row that member p reads:
\* the user row, the item row and the previous-item row of p
ReadsApartFromWrites(r, p, q) ==
    /\ r.user[p] # r.user[q]
    /\ r.item[p] # r.item[q]
    /\ r.previous_item[p] # r.item[q]

\* C15: in every processed T-batch no member reads a row of a table (the
\* row of its user, of its item, of its previous item) that another member
\* of the T-batch writes, so the members can be taken in any order.
C15_MembersIndependent ==
    \A n \in DOMAIN processed : \A p, q \in DOMAIN processed[n].user :
        p # q => ReadsApartFromWrites(processed[n], p, q)

\* the earlier interactions of the user, or of the item, of interaction k
EarlierOfUser(k) == {h \in 0..(k - 1) : UserOf(h) = UserOf(k)}

EarlierOfItem(k) == {h \in 0..(k - 1) : ItemOf(h) = ItemOf(k)}

\* the row read is the output of the latest of the earlier interactions,
\* or an initial vector when there is none
ReadsLatestOf(row, earlier) ==
    IF earlier = {} THEN row <= 0 ELSE row = SetMax(earlier) + 1

\* C16: every interaction processed reads, as the embedding of its user
\* and of its item, the output of the latest earlier interaction of that
\* user or item in the stream, or the initial vector when there is none:
\* what processing the stream one interaction at a time would read.
C16_ReadsAsInStreamOrder ==
    \A n \in DOMAIN processed : \A p \in DOMAIN processed[n].interactionids :
        /\ ReadsLatestOf(processed[n].user_embedding_input[p],
                         EarlierOfUser(processed[n].interactionids[p]))
        /\ ReadsLatestOf(processed[n].item_embedding_input[p],
                         EarlierOfItem(processed[n].interactionids[p]))

\* the places in processed of T-batch b of the window the epoch e closed at t
ProcessedAt(e, t, b) ==
    {n \in DOMAIN processed :
        processed[n].ep = e /\ processed[n].timestamp = t /\ processed[n].i = b}

\* the T-batches of the window flushed at t that hold interactions
BatchIdsIn(t) ==
    {b \in DOMAIN cached_tbatches[t] : cached_tbatches[t][b].interactionids # <<>>}

\* C17: in every epoch the T-batches are processed window after window in
\* the order of the closing timestamps and, within a window, in increasing
\* order of batch id; and every T-batch of a flushed window has been
\* processed exactly once, before any T-batch of a later window.
C17_InOrderEachOnce ==
    /\ \A n, m \in DOMAIN processed :
          (n < m /\ processed[n].ep = processed[m].ep) =>
              \/ processed[n].timestamp < processed[m].timestamp
              \/ /\ processed[n].timestamp = processed[m].timestamp
                 /\ processed[n].i < processed[m].i
    /\ \A t \in Keys : \A b \in BatchIdsIn(t) :
          /\ Cardinality(ProcessedAt(0, t, b)) = 1
          /\ \A n \in ProcessedAt(0, t, b) :
                /\ processed[n].interactionids = cached_tbatches[t][b].interactionids
                /\ \A m \in DOMAIN processed :
                      (processed[m].ep = 0 /\ processed[m].timestamp > t) => n < m

\* the optimizer steps taken for the window of the closing record c
StepsOf(c) ==
    {n \in DOMAIN stepped :
        stepped[n].ep = c.ep /\ stepped[n].timestamp = c.timestamp}

\* the terms of the loss are of T-batches of the window epoch e closed at t
TermsOfWindow(terms, e, t) == \A x \in terms : x[1] = e /\ x[2] = t

\* C18: every closed window gets exactly one optimizer step, none while
\* its T-batches are being processed; the loss is empty when the flush of
\* a window begins and whenever a T-batch is processed it holds terms of
\* that window only; at the step it holds a term of every T-batch of the
\* window and of no other window.
C18_OneStepPerWindow ==
    /\ \A q \in DOMAIN closed :
          IF q = Len(closed) /\ pc = "flush"
          THEN StepsOf(closed[q]) = {}
          ELSE Cardinality(StepsOf(closed[q])) = 1
    /\ (pc = "flush" /\ i = 0) => loss = {}
    /\ \A n \in DOMAIN processed :
          TermsOfWindow(processed[n].loss, processed[n].ep, processed[n].timestamp)
    /\ \A n \in DOMAIN stepped :
          /\ TermsOfWindow(stepped[n].loss, stepped[n].ep, stepped[n].timestamp)
          /\ stepped[n].ep = 0 =>
                \A b \in BatchIdsIn(stepped[n].timestamp) :
                    <<0, stepped[n].timestamp, b>> \in stepped[n].loss

\* the lowest batch id the scheduler gives out when no counter has moved
LowestBatchId == InitialTbatchid + 1

\* line 200: the indices the loop over the T-batches visits
VisitedIndices == 0..(num_tbatches - 1)

\* C19: when the first epoch starts the flush of a window, the T-batches
\* of the window all hold interactions, there is at least one, their ids
\* are a range without gaps from the lowest batch id, and the indices the
\* loop visits are exactly these ids.
C19_LoopVisitsEveryBatch ==
    (is_first_epoch /\ pc = "flush" /\ i = 0) =>
        /\ DOMAIN current_tbatches # {}
        /\ \A b \in DOMAIN current_tbatches : current_tbatches[b].interactionids # <<>>
        /\ IsRange(DOMAIN current_tbatches)
        /\ SetMin(DOMAIN current_tbatches) = LowestBatchId
        /\ VisitedIndices = DOMAIN current_tbatches

\* the windows epoch e has closed, in order: index and timestamp
ClosedIn(e) ==
    LET rows == SelectSeq(closed, LAMBDA c : c.ep = e)
    IN  [q \in DOMAIN rows |-> <<rows[q].j, rows[q].timestamp>>]

\* the closing timestamps the first epoch has taken an optimizer step for
FlushedInFirstEpoch ==
    {stepped[n].timestamp : n \in {m \in DOMAIN stepped : stepped[m].ep = 0}}

=============================================================================
